---------------------------- MODULE Spec2Model ----------------------------
(***************************************************************************)
(* A model of cryptotax (src/src/cryptotax.py): the lot inventory, the     *)
(* FIFO/LIFO consumption algorithm assign_lot, the four transaction        *)
(* handlers and the year-bounded loop of TaxEngine.process_transactions.   *)
(*                                                                         *)
(* Quantities and amounts are Python Decimals.  The module sets the        *)
(* decimal context to 8 significant digits (line 14), so every arithmetic  *)
(* result is rounded (half even) to 8 significant digits, while a value    *)
(* built from a string keeps all of its digits.  A Decimal is modelled as  *)
(* a record [c |-> coefficient, e |-> exponent] of value c * 10^e, kept    *)
(* without trailing zeros, so that numeric equality is record equality.    *)
(***************************************************************************)
EXTENDS Integers, Sequences, FiniteSets, TLC

\* decimal.getcontext().prec
Prec == 8

\* ------------------------------------------------------------------------
\* Decimal arithmetic under the context of line 14
\* ------------------------------------------------------------------------

\* F applied to the value of x.  The value is computed once, however often
\* F uses it: a Python local variable, assigned once and read many times.
Bind(x, F(_)) == CHOOSE r \in {F(v) : v \in {x}} : TRUE

RECURSIVE Pow10(_)
Pow10(k) == IF k <= 0 THEN 1 ELSE 10 * Pow10(k - 1)

Abs(x) == IF x < 0 THEN -x ELSE x

Sign(x) == IF x < 0 THEN -1 ELSE IF x > 0 THEN 1 ELSE 0

\* The number of decimal digits of x >= 0.
RECURSIVE NumDigits(_)
NumDigits(x) ==
    Bind(x, LAMBDA v : IF v < 10 THEN 1 ELSE 1 + NumDigits(v \div 10))

\* The Decimal of value c * 10^e, in canonical form.
RECURSIVE Dec(_, _)
Dec(c, e) ==
    Bind(<<c, e>>, LAMBDA v :
        IF v[1] = 0 THEN [c |-> 0, e |-> 0]
        ELSE IF v[1] % 10 = 0 THEN Dec(v[1] \div 10, v[2] + 1)
        ELSE [c |-> v[1], e |-> v[2]])

Zero == Dec(0, 0)

\* x >= 0 with its last d digits dropped, rounded half even; sticky says that
\* digits below those of x were already dropped and were not all zero.
RoundHalfEven(x, d, sticky) ==
    IF d <= 0 THEN x
    ELSE LET q == x \div Pow10(d)
             r == x % Pow10(d)
             half == 5 * Pow10(d - 1)
             up == \/ r > half
                   \/ r = half /\ (sticky \/ q % 2 = 1)
         IN  IF up THEN q + 1 ELSE q

\* The context's rounding of the exact value c * 10^e (+ a sticky rest).
RoundValue(c, e, sticky) ==
    LET d == NumDigits(Abs(c)) - Prec
    IN  IF d <= 0 THEN Dec(c, e)
        ELSE Dec(Sign(c) * RoundHalfEven(Abs(c), d, sticky), e + d)

ContextRound(c, e, sticky) ==
    Bind(<<c, e>>, LAMBDA v : RoundValue(v[1], v[2], sticky))

MinInt(a, b) == IF a <= b THEN a ELSE b

\* a + b without rounding, as an integer count of 10^MinInt(a.e, b.e).
AlignedSum(a, b) ==
    LET m == MinInt(a.e, b.e)
    IN  a.c * Pow10(a.e - m) + b.c * Pow10(b.e - m)

\* The position of the leading digit of a (a # 0).
Adjusted(a) == NumDigits(Abs(a.c)) + a.e

\* The rounded sum of big and small, both nonzero, when small's leading digit
\* is two places or more below big's and the digits of the two span more
\* places than a 32-bit integer holds.  big is written with
\* Prec + 1 digits, as b units of 10^u; small is si units and a rest below
\* one unit, which decides the rounding only through being zero or not and,
\* where a difference falls back to Prec digits, through its place
\* relative to half a unit.
FarSum(big, small) ==
    LET k == Prec + 1 - NumDigits(Abs(big.c))
        u == big.e - k
        b == Abs(big.c) * Pow10(k)
        t == u - small.e
        si == IF t > 9 THEN 0 ELSE Abs(small.c) \div Pow10(t)
        rest == IF t > 9 THEN Abs(small.c) ELSE Abs(small.c) % Pow10(t)
        belowHalf == t > 9 \/ 2 * rest < Pow10(t)
        isHalf == t <= 9 /\ 2 * rest = Pow10(t)
        s == Sign(big.c)
    IN  IF Sign(small.c) = s
        THEN Bind(b + si, LAMBDA x :
                Dec(s * RoundHalfEven(x, NumDigits(x) - Prec, rest # 0),
                    u + NumDigits(x) - Prec))
        ELSE IF rest = 0
        THEN Bind(b - si, LAMBDA x :
                Dec(s * RoundHalfEven(x, NumDigits(x) - Prec, FALSE),
                    u + NumDigits(x) - Prec))
        ELSE Bind(b - si - 1, LAMBDA y :
                IF NumDigits(y) > Prec
                THEN Dec(s * RoundHalfEven(y, NumDigits(y) - Prec, TRUE),
                         u + NumDigits(y) - Prec)
                ELSE IF belowHalf \/ (isHalf /\ y % 2 = 1)
                THEN Dec(s * (y + 1), u)
                ELSE Dec(s * y, u))

\* The rounded difference of big and small, both nonzero and of opposite
\* signs, when small's leading digit is the place below big's and the
\* digits of the two span more places than a 32-bit integer holds.  big is
\* b units of 10^u as in FarSum; the difference is x units and r units of
\* 10^(u - t), of which as many places are taken as make nine digits.
NearDifference(big, small) ==
    LET k == Prec + 1 - NumDigits(Abs(big.c))
        u == big.e - k
        b == Abs(big.c) * Pow10(k)
        t == u - small.e
        si == Abs(small.c) \div Pow10(t)
        rest == Abs(small.c) % Pow10(t)
        x == IF rest = 0 THEN b - si ELSE b - si - 1
        r == IF rest = 0 THEN 0 ELSE Pow10(t) - rest
        j == IF x = 0 THEN t ELSE MinInt(t, Prec + 1 - NumDigits(x))
        s == Sign(big.c)
    IN  RoundValue(s * (x * Pow10(j) + r \div Pow10(t - j)), u - j,
                   r % Pow10(t - j) # 0)

\* The sum of two Decimal values, rounded by the context.
AddValues(a, b) ==
    IF a.c = 0 THEN RoundValue(b.c, b.e, FALSE)
    ELSE IF b.c = 0 THEN RoundValue(a.c, a.e, FALSE)
    ELSE LET aBig == Adjusted(a) >= Adjusted(b)
             big == IF aBig THEN a ELSE b
             small == IF aBig THEN b ELSE a
         IN  IF \/ Adjusted(big) - MinInt(a.e, b.e) <= Prec + 1
                \/ NumDigits(Abs(big.c)) > Prec + 1
             THEN RoundValue(AlignedSum(a, b), MinInt(a.e, b.e), FALSE)
             ELSE IF \/ Adjusted(big) - Adjusted(small) >= 2
                     \/ Sign(a.c) = Sign(b.c)
             THEN FarSum(big, small)
             ELSE NearDifference(big, small)

\* Decimal.__add__
DAdd(a, b) == Bind(<<a, b>>, LAMBDA v : AddValues(v[1], v[2]))

DNeg(a) == Bind(a, LAMBDA v : [c |-> -v.c, e |-> v.e])

\* Decimal.__sub__
DSub(a, b) == DAdd(a, DNeg(b))

\* Decimal.__mul__
DMul(a, b) ==
    Bind(<<a, b>>, LAMBDA v :
        ContextRound(v[1].c * v[2].c, v[1].e + v[2].e, FALSE))

\* Long division of r * 10^e by dv: digits are produced until the quotient has
\* one digit more than the context keeps, or the division is exact.
RECURSIVE DivLoop(_, _, _, _)
DivLoop(q, r, dv, e) ==
    IF r = 0 \/ (q # 0 /\ NumDigits(q) > Prec) THEN [q |-> q, r |-> r, e |-> e]
    ELSE Bind(<<q * 10 + (r * 10) \div dv, (r * 10) % dv, e - 1>>,
              LAMBDA v : DivLoop(v[1], v[2], dv, v[3]))

\* Decimal.__truediv__ for a divisor other than zero (the callers test for it).
DDiv(a, b) ==
    Bind(<<a, b>>, LAMBDA v :
        Bind(DivLoop(Abs(v[1].c) \div Abs(v[2].c), Abs(v[1].c) % Abs(v[2].c),
                     Abs(v[2].c), v[1].e - v[2].e),
             LAMBDA l :
                ContextRound(Sign(v[1].c) * Sign(v[2].c) * l.q, l.e, l.r # 0)))

\* a < b for a > 0 and b > 0.
PosLt(a, b) ==
    IF Adjusted(a) # Adjusted(b) THEN Adjusted(a) < Adjusted(b)
    ELSE LET m == MinInt(a.e, b.e)
         IN  a.c * Pow10(a.e - m) < b.c * Pow10(b.e - m)

\* Decimal.__lt__
LtValues(a, b) ==
    IF Sign(a.c) # Sign(b.c) THEN Sign(a.c) < Sign(b.c)
    ELSE IF a.c = 0 THEN FALSE
    ELSE IF a.c > 0 THEN PosLt(a, b)
    ELSE PosLt(DNeg(b), DNeg(a))

DLt(a, b) == Bind(<<a, b>>, LAMBDA v : LtValues(v[1], v[2]))

DGt(a, b) == DLt(b, a)

DLe(a, b) == ~DLt(b, a)

\* max(a, b) of Python: b only when b > a.
DMax(a, b) ==
    Bind(<<a, b>>, LAMBDA v : IF DGt(v[2], v[1]) THEN v[2] ELSE v[1])


\* ------------------------------------------------------------------------
\* Lot, LotBasket, Inventory
\* ------------------------------------------------------------------------

\* A datetime is the integer yyyymmdd; datetime.year is its leading part.
YearOf(date) == date \div 10000

\* Lot.__init__
Lot(date, asset, qty, cost) ==
    [date |-> date, asset |-> asset, qty |-> qty, cost |-> cost]

\* LotBasket.__init__ with no lots
LotBasket(asset) == [asset |-> asset, lots |-> <<>>]

\* What stands for "no basket was returned" (the call raised).
NoBasket == [asset |-> "none", lots |-> <<>>]

\* LotBasket.add_lot: the basket with the lot appended, or a ValueError.
BasketAddLot(basket, lot) ==
    IF lot.asset # basket.asset
    THEN [ok |-> FALSE, basket |-> basket]
    ELSE [ok |-> TRUE,
          basket |-> [basket EXCEPT !.lots = Append(@, lot)]]

\* sum(...) of Python over Decimals: 0 + x1 + x2 + ..., each step rounded.
RECURSIVE SumDec(_)
SumDec(s) ==
    Bind(s, LAMBDA v :
        IF v = <<>> THEN Zero
        ELSE DAdd(SumDec(SubSeq(v, 1, Len(v) - 1)), v[Len(v)]))

\* LotBasket.total_qty
total_qty(basket) ==
    SumDec([i \in 1..Len(basket.lots) |-> basket.lots[i].qty])

\* LotBasket.total_cost
total_cost(basket) ==
    SumDec([i \in 1..Len(basket.lots) |->
               DMul(basket.lots[i].cost, basket.lots[i].qty)])

\* A faulty average, against which the average-cost claim is tested: the
\* mean of the lots' unit costs, whatever their quantities.
avg_cost_unweighted(basket) ==
    IF basket.lots # <<>>
    THEN DDiv(SumDec([i \in 1..Len(basket.lots) |-> basket.lots[i].cost]),
              Dec(Len(basket.lots), 0))
    ELSE Zero

\* LotBasket.avg_cost
avg_cost(basket) ==
    IF total_qty(basket) # Zero
    THEN DDiv(total_cost(basket), total_qty(basket))
    ELSE Zero

\* Inventory.baskets is a dict: a function whose domain is the set of keys.
\* d with key k set to v (d[k] = v of Python).
DictSet(d, k, v) ==
    [x \in (DOMAIN d) \cup {k} |-> IF x = k THEN v ELSE d[x]]

EmptyDict == [x \in {} |-> 0]

\* Inventory.add_basket
InventoryAddBasket(bk, basket) ==
    IF basket.asset \in DOMAIN bk
    THEN [bk EXCEPT ![basket.asset].lots = @ \o basket.lots]
    ELSE DictSet(bk, basket.asset, basket)

\* Inventory.add_lot: the baskets with the lot added (ok), or a ValueError.
InventoryAddLot(bk, lot) ==
    Bind(IF lot.asset \notin DOMAIN bk
         THEN InventoryAddBasket(bk, LotBasket(lot.asset))
         ELSE bk,
         LAMBDA with :
            Bind(BasketAddLot(with[lot.asset], lot), LAMBDA added :
                [ok |-> added.ok,
                 baskets |-> [with EXCEPT ![lot.asset] = added.basket]]))

\* TaxEngine.record_lot
record_lot(bk, date, asset, qty, cost_basis) ==
    Bind(<<bk, Lot(date, asset, qty, cost_basis)>>, LAMBDA v :
        InventoryAddLot(v[1], v[2]))

\* ------------------------------------------------------------------------
\* TaxEngine.assign_lot
\* ------------------------------------------------------------------------

\* Two faulty selections, against which the order claims are tested: the
\* newest lot whatever the criterion, and the oldest whatever the criterion.
SelectNewest(crit, lots) == Len(lots)

SelectOldest(crit, lots) == 1

\* The index assign_lot selects: lots[0] under FIFO, lots[-1] under LIFO.
SelectIndex(crit, lots) == IF crit = "FIFO" THEN 1 ELSE Len(lots)

\* A faulty pop, against which the claim of the stable ledger is tested: the
\* selected lot is handed out and stays in the basket too.
KeepAt(lots, i) == lots

\* lots.pop(0) / lots.pop(-1): the list without the selected lot.
PopAt(lots, i) ==
    [j \in 1..(Len(lots) - 1) |-> IF j < i THEN lots[j] ELSE lots[j + 1]]

\* The literal 0.000001 of the final assert is a float a little below 10^-6:
\* a Decimal d satisfies d <= 0.000001 exactly when d < 10^-6 or d is that
\* float, and no Decimal the model computes has the float's 60 digits.
AssertTolerance == Dec(1, -6)

\* A faulty test, against which the claim of no empty lots is tested: a lot
\* of exactly the remaining quantity is split too.
SplitsOrEquals(lot, remaining) == ~DLt(lot.qty, remaining)

\* "if lot.qty > remaining_qty": the lot is split, not popped whole.
SplitsLot(lot, remaining) == DGt(lot.qty, remaining)

\* A faulty split, against which the termination claim is tested: what
\* remains after a split is computed as after a pop.
RemainingAsAfterPop(lot, remaining) == DSub(remaining, lot.qty)

\* "remaining_qty = 0" at the end of the split.
RemainingAfterSplit(lot, remaining) == Zero

\* The while loop of assign_lot.  remaining is the Decimal still to assign,
\* assigned the basket built so far, iters the iterations already run.  The
\* result says how many iterations ran and what remained when the loop ended.
RECURSIVE AssignLoop(_, _, _, _, _, _)
AssignLoop(bk, crit, asset, assigned, remaining, iters) ==
    IF ~DGt(remaining, Zero)
    THEN [baskets |-> bk, returned |-> assigned, outcome |-> "ok",
          iters |-> iters, remaining |-> remaining]
    ELSE IF asset \notin DOMAIN bk
    THEN [baskets |-> bk, returned |-> NoBasket, outcome |-> "KeyError",
          iters |-> iters + 1, remaining |-> remaining]
    ELSE IF bk[asset].lots = <<>>
    THEN [baskets |-> bk, returned |-> NoBasket, outcome |-> "IndexError",
          iters |-> iters + 1, remaining |-> remaining]
    ELSE
      LET lots == bk[asset].lots
          i == SelectIndex(crit, lots)
          lot == lots[i]
          split == SplitsLot(lot, remaining)
          \* the lot split (reduced in place, a fragment assigned), or
          \* popped whole
          bk2 == IF split
                 THEN [bk EXCEPT ![asset].lots[i].qty = DSub(@, remaining)]
                 ELSE [bk EXCEPT ![asset].lots = PopAt(lots, i)]
          lot_to_assign == IF split
                           THEN Lot(lot.date, lot.asset, remaining, lot.cost)
                           ELSE lot
          left == IF split THEN RemainingAfterSplit(lot, remaining)
                  ELSE DSub(remaining, lot.qty)
      IN  Bind(<<bk2, BasketAddLot(assigned, lot_to_assign), left>>,
               LAMBDA v :
                  IF ~v[2].ok
                  THEN [baskets |-> v[1], returned |-> NoBasket,
                        outcome |-> "ValueError", iters |-> iters + 1,
                        remaining |-> remaining]
                  ELSE AssignLoop(v[1], crit, asset, v[2].basket, v[3],
                                  iters + 1))

\* assign_lot(asset, qty_to_assign): the inventory it leaves, the basket it
\* returns and how it ends ("ok", or the exception raised).
assign_lot(bk, crit, asset, qty_to_assign) ==
    Bind(AssignLoop(bk, crit, asset, LotBasket(asset), qty_to_assign, 0),
         LAMBDA r :
            IF r.outcome = "ok"
               /\ ~DLt(DSub(total_qty(r.returned), qty_to_assign),
                       AssertTolerance)
            THEN [r EXCEPT !.returned = NoBasket,
                           !.outcome = "AssertionError"]
            ELSE r)

\* ------------------------------------------------------------------------
\* State
\* ------------------------------------------------------------------------

VARIABLES
    criterio,      \* TaxEngine.criterio: "FIFO" or "LIFO"
    initial_inventory,  \* the inventory the constructor was handed, as it
                   \* was then
    baskets,       \* TaxEngine.inventory.baskets: asset -> LotBasket
    tax_events,    \* TaxEngine.tax_events: asset -> list of events
    transactions,  \* TaxEngine.transactions
    n,             \* process_transactions: the loop's index into transactions
    pc,            \* "api": the engine is driven call by call; or the place of
                   \* process_transactions: "start", "loop", "done", "failed"
    prev,          \* the inventory and the ledger before the last loop iteration
    call,          \* the last call of record_lot or assign_lot: its arguments,
                   \* the inventory before it, what it returned, how it ended
    calls          \* how many calls the driver has made

vars ==
    <<criterio, initial_inventory, baskets, tax_events, transactions, n, pc,
      prev, call, calls>>

Criteria == {"FIFO", "LIFO"}

NoCall ==
    [op |-> "none", asset |-> "none", qty |-> Zero, before |-> EmptyDict,
     returned |-> NoBasket, outcome |-> "none", iters |-> 0]

NoPrev == [baskets |-> EmptyDict, tax_events |-> EmptyDict]

\* setup_inventory of tests/test_cryptotax.py
TestInventory ==
    [a \in {"XMR", "BTC"} |->
        IF a = "XMR"
        THEN [asset |-> "XMR",
              lots |-> << Lot(20191106, "XMR", Dec(5, 0), Dec(40, 0)),
                          Lot(20191202, "XMR", Dec(5, 0), Dec(50, 0)) >>]
        ELSE [asset |-> "BTC",
              lots |-> << Lot(20201202, "BTC", Dec(1, 0), Dec(10000, 0)) >>]]

\* The opening inventories: Inventory() and the tests' inventory.
InitInventories == {EmptyDict, TestInventory}

\* ------------------------------------------------------------------------
\* The engine driven call by call (as the tests drive it): SpecLots
\* ------------------------------------------------------------------------

\* The number of calls a run makes.
MaxCalls == 3

\* The lots record_lot is called with.
RecordPool ==
    { Lot(20200110, "XMR", Dec(123456789, -8), Dec(60, 0)),
      Lot(20200110, "XMR", Dec(5, 0), Dec(60, 0)),
      Lot(20200301, "BTC", Dec(100, 0), Dec(9000, 0)),
      Lot(20200302, "BTC", Dec(6, -6), Dec(9500, 0)) }

\* The (asset, quantity) pairs assign_lot is called with.
AssignPool ==
    { <<"XMR", Dec(7, 0)>>, <<"XMR", Dec(5, 0)>>, <<"XMR", Dec(11, 0)>>,
      <<"XMR", Dec(4, -8)>>,
      <<"BTC", Dec(100000006, -6)>>, <<"BTC", Dec(1, 0)>> }

InitLots ==
    /\ criterio \in Criteria
    /\ initial_inventory \in InitInventories
    /\ baskets = initial_inventory
    /\ tax_events = EmptyDict
    /\ transactions = <<>>
    /\ n = 0
    /\ pc = "api"
    /\ prev = NoPrev
    /\ call = NoCall
    /\ calls = 0

\* engine.record_lot(lot.date, lot.asset, lot.qty, lot.cost)
CallRecordLot(lot) ==
    /\ pc = "api"
    /\ calls < MaxCalls
    /\ \E r \in {record_lot(baskets, lot.date, lot.asset, lot.qty, lot.cost)} :
           /\ baskets' = r.baskets
           /\ call' = [op |-> "record_lot", asset |-> lot.asset,
                       qty |-> lot.qty, before |-> baskets,
                       returned |-> NoBasket,
                       outcome |-> IF r.ok THEN "ok" ELSE "ValueError",
                       iters |-> 0]
    /\ calls' = calls + 1
    /\ UNCHANGED <<criterio, initial_inventory, tax_events, transactions, n, pc,
                   prev>>

\* engine.assign_lot(asset, q)
CallAssignLot(asset, q) ==
    /\ pc = "api"
    /\ calls < MaxCalls
    /\ \E r \in {assign_lot(baskets, criterio, asset, q)} :
           /\ baskets' = r.baskets
           /\ call' = [op |-> "assign_lot", asset |-> asset, qty |-> q,
                       before |-> baskets, returned |-> r.returned,
                       outcome |-> r.outcome, iters |-> r.iters]
    /\ calls' = calls + 1
    /\ UNCHANGED <<criterio, initial_inventory, tax_events, transactions, n, pc,
                   prev>>

RecordLotStep == \E lot \in RecordPool : CallRecordLot(lot)

AssignLotStep == \E a \in AssignPool : CallAssignLot(a[1], a[2])

NextLots == RecordLotStep \/ AssignLotStep

SpecLots == InitLots /\ [][NextLots]_vars

\* ------------------------------------------------------------------------
\* Transactions, prices and the four handlers
\* ------------------------------------------------------------------------

\* Transaction.__init__
Transaction(txid, date, type, qty1, asset1, qty2, asset2) ==
    [txid |-> txid, date |-> date, type |-> type, qty1 |-> qty1,
     asset1 |-> asset1, qty2 |-> qty2, asset2 |-> asset2]

\* TaxEngine.year: the tests' engine reports on 2020.
Year == 2020

\* TaxEngine.base_asset.symbol (the constructor's default)
base_asset == "EUR"

\* None, where a handler's result holds an asset or a Decimal.
NoAsset == "None"

NoDec == [c |-> 0, e |-> 0, none |-> TRUE]

\* bool(x) of Python for a Decimal or None.
Truthy(x) == x # NoDec /\ x # Zero

\* TaxEngine.btceur and TaxEngine.xmreur: the price tables read from the
\* price files, date -> price in EUR.  Both files hold a price of 2020-02-20
\* and of 2019-12-15; the BTC file alone holds a price of 2020-03-15.
btceur == [d \in {20191215, 20200220, 20200315} |-> Dec(9000, 0)]

xmreur == [d \in {20191215, 20200220} |-> Dec(60, 0)]

\* What a handler hands back: its result, or the exception it raised.
Raised(error) ==
    [error |-> error, asset_to_pop |-> NoAsset, qty_to_pop |-> NoDec,
     asset_to_push |-> NoAsset, qty_to_push |-> NoDec,
     cost_basis |-> NoDec, income |-> NoDec]

\* The exception of a / b when b is zero.
DivError(a) == IF a = Zero THEN "InvalidOperation" ELSE "DivisionByZero"

\* A faulty _handle_buy, against which the purchase claim is tested: the
\* lot's unit cost is the whole price paid.
handle_buy_total_cost(tx) ==
    IF tx.qty1 = Zero THEN Raised(DivError(tx.qty2))
    ELSE [error |-> "none",
          asset_to_pop |-> NoAsset, qty_to_pop |-> NoDec,
          asset_to_push |-> tx.asset1, qty_to_push |-> tx.qty1,
          cost_basis |-> tx.qty2,
          income |-> NoDec]

\* TaxEngine._handle_buy
handle_buy(tx) ==
    IF tx.qty1 = Zero THEN Raised(DivError(tx.qty2))
    ELSE [error |-> "none",
          asset_to_pop |-> NoAsset, qty_to_pop |-> NoDec,
          asset_to_push |-> tx.asset1, qty_to_push |-> tx.qty1,
          cost_basis |-> DDiv(tx.qty2, tx.qty1),
          income |-> NoDec]

\* TaxEngine._handle_sell
handle_sell(tx) ==
    IF tx.qty1 = Zero THEN Raised(DivError(tx.qty2))
    ELSE [error |-> "none",
          asset_to_pop |-> tx.asset1, qty_to_pop |-> tx.qty1,
          asset_to_push |-> NoAsset, qty_to_push |-> NoDec,
          cost_basis |-> DDiv(tx.qty2, tx.qty1),
          income |-> tx.qty2]

\* vt of both swap handlers: the BTC price times qty2 against the XMR price
\* times qty1, whichever assets the transaction names.
SwapVt(tx) ==
    DMax(DMul(btceur[tx.date], tx.qty2), DMul(xmreur[tx.date], tx.qty1))

\* A swap handler's lookups self.btceur[tx.date], self.xmreur[tx.date] succeed.
HasPrices(tx) == tx.date \in DOMAIN btceur /\ tx.date \in DOMAIN xmreur

\* TaxEngine._handle_buy_permuta
handle_buy_permuta(tx) ==
    IF ~HasPrices(tx) THEN Raised("KeyError")
    ELSE IF tx.qty1 = Zero THEN Raised(DivError(SwapVt(tx)))
    ELSE [error |-> "none",
          asset_to_pop |-> tx.asset2, qty_to_pop |-> tx.qty2,
          asset_to_push |-> tx.asset1, qty_to_push |-> tx.qty1,
          cost_basis |-> DDiv(SwapVt(tx), tx.qty1),
          income |-> SwapVt(tx)]

\* TaxEngine._handle_sell_permuta
handle_sell_permuta(tx) ==
    IF ~HasPrices(tx) THEN Raised("KeyError")
    ELSE IF tx.qty2 = Zero THEN Raised(DivError(SwapVt(tx)))
    ELSE [error |-> "none",
          asset_to_pop |-> tx.asset1, qty_to_pop |-> tx.qty1,
          asset_to_push |-> tx.asset2, qty_to_push |-> tx.qty2,
          cost_basis |-> DDiv(SwapVt(tx), tx.qty2),
          income |-> SwapVt(tx)]

\* A faulty lookup, against which the halt on an unknown pair is tested:
\* every asset2 that is no swap asset is taken for the base asset.
HandlerNameAnyFiat(type, asset2) ==
    IF type = "Buy" /\ asset2 \in {"BTC", "XMR"} THEN "buy_permuta"
    ELSE IF type = "Sell" /\ asset2 \in {"BTC", "XMR"} THEN "sell_permuta"
    ELSE IF type = "Buy" THEN "buy"
    ELSE IF type = "Sell" THEN "sell"
    ELSE "None"

\* The handlers dict of process_transactions and handlers.get((type, asset2)).
HandlerName(type, asset2) ==
    IF type = "Buy" /\ asset2 \in {"BTC", "XMR"} THEN "buy_permuta"
    ELSE IF type = "Sell" /\ asset2 \in {"BTC", "XMR"} THEN "sell_permuta"
    ELSE IF type = "Buy" /\ asset2 = base_asset THEN "buy"
    ELSE IF type = "Sell" /\ asset2 = base_asset THEN "sell"
    ELSE "None"

\* result = handler(tx): calling None raises a TypeError.
HandlerResult(tx) ==
    LET h == HandlerName(tx.type, tx.asset2)
    IN  IF h = "buy" THEN handle_buy(tx)
        ELSE IF h = "sell" THEN handle_sell(tx)
        ELSE IF h = "buy_permuta" THEN handle_buy_permuta(tx)
        ELSE IF h = "sell_permuta" THEN handle_sell_permuta(tx)
        ELSE Raised("TypeError")

\* ------------------------------------------------------------------------
\* The ledger and the loop of process_transactions
\* ------------------------------------------------------------------------

\* tax_events is a defaultdict(list): tax_events[asset] of a missing key is [].
EventsOf(ev, asset) == IF asset \in DOMAIN ev THEN ev[asset] ELSE <<>>

\* TaxEngine.record_tax_event
record_tax_event(ev, date, asset, income, assigned_lot_basket) ==
    Bind(total_cost(assigned_lot_basket), LAMBDA cost :
        DictSet(ev, asset,
                Append(EventsOf(ev, asset),
                       [date |-> date,
                        qty |-> total_qty(assigned_lot_basket),
                        income |-> income,
                        cost |-> cost,
                        result |-> DSub(income, cost),
                        trace |-> assigned_lot_basket])))

\* Two faulty year tests, against which the year claims are tested: every
\* transaction is processed; every processed transaction is reported.
InScopeAlways(tx) == TRUE

CurrentYearOrEarlier(tx) == YearOf(tx.date) <= Year

\* The condition under which the loop processes a transaction at all.
InScope(tx) == YearOf(tx.date) <= Year

\* tx_current_year
CurrentYear(tx) == YearOf(tx.date) = Year

\* The event's key in the call of record_tax_event.
EventAsset(tx) == tx.asset1

\* The iteration from the handler's result on: the call of assign_lot, the
\* call of record_lot, the call of record_tax_event.
ApplyResult(bk, ev, crit, tx, result) ==
    LET pop == result.asset_to_pop # NoAsset
    IN  Bind(IF pop
             THEN assign_lot(bk, crit, result.asset_to_pop, result.qty_to_pop)
             ELSE [baskets |-> bk, returned |-> NoBasket, outcome |-> "ok",
                   iters |-> 0],
             LAMBDA a :
                LET c == IF pop
                         THEN [op |-> "assign_lot",
                               asset |-> result.asset_to_pop,
                               qty |-> result.qty_to_pop, before |-> bk,
                               returned |-> a.returned, outcome |-> a.outcome,
                               iters |-> a.iters]
                         ELSE NoCall
                IN  IF a.outcome # "ok"
                    THEN [baskets |-> a.baskets, tax_events |-> ev,
                          error |-> a.outcome, call |-> c]
                    ELSE [baskets |->
                              IF result.asset_to_push # NoAsset
                              THEN record_lot(a.baskets, tx.date,
                                              result.asset_to_push,
                                              result.qty_to_push,
                                              result.cost_basis).baskets
                              ELSE a.baskets,
                          tax_events |->
                              IF CurrentYear(tx) /\ Truthy(result.income)
                              THEN record_tax_event(ev, tx.date,
                                                    EventAsset(tx),
                                                    result.income, a.returned)
                              ELSE ev,
                          error |-> "none", call |-> c])

\* One iteration of the loop over tx, from inventory bk and ledger ev: the
\* inventory and ledger it leaves, the exception that ended it ("none" when
\* it ran to its end) and its call of assign_lot (NoCall when it made none).
ProcessOne(bk, ev, crit, tx) ==
    IF ~InScope(tx)
    THEN [baskets |-> bk, tax_events |-> ev, error |-> "none", call |-> NoCall]
    ELSE Bind(HandlerResult(tx), LAMBDA result :
            IF result.error # "none"
            THEN [baskets |-> bk, tax_events |-> ev, error |-> result.error,
                  call |-> NoCall]
            ELSE ApplyResult(bk, ev, crit, tx, result))

\* sorted(txs, key=lambda tx: tx.date): a stable sort, by insertion.
RECURSIVE InsertByDate(_, _)
InsertByDate(sorted, tx) ==
    Bind(sorted, LAMBDA v :
        IF v = <<>> THEN <<tx>>
        ELSE IF v[Len(v)].date <= tx.date THEN Append(v, tx)
        ELSE Append(InsertByDate(SubSeq(v, 1, Len(v) - 1), tx), v[Len(v)]))

RECURSIVE SortedByDate(_)
SortedByDate(txs) ==
    Bind(txs, LAMBDA v :
        IF v = <<>> THEN <<>>
        ELSE InsertByDate(SortedByDate(SubSeq(v, 1, Len(v) - 1)), v[Len(v)]))

\* A faulty preparation, against which the order claim is tested: the list
\* is processed as it was handed in.
Unsorted(txs) == txs

\* TaxEngine._init_transactions
init_transactions(txs) == SortedByDate(txs)

\* The loop of process_transactions over txs, to its end or to the first
\* exception.
RECURSIVE RunLoop(_, _, _, _)
RunLoop(bk, ev, crit, txs) ==
    IF txs = <<>>
    THEN [baskets |-> bk, tax_events |-> ev, error |-> "none"]
    ELSE Bind(ProcessOne(bk, ev, crit, Head(txs)), LAMBDA r :
            IF r.error # "none"
            THEN [baskets |-> r.baskets, tax_events |-> r.tax_events,
                  error |-> r.error]
            ELSE RunLoop(r.baskets, r.tax_events, crit, Tail(txs)))

\* TaxEngine.process_transactions of a new engine: what it leaves.
process_transactions(bk, crit, txs) ==
    RunLoop(bk, EmptyDict, crit, init_transactions(txs))

\* ------------------------------------------------------------------------
\* process_transactions: Spec
\* ------------------------------------------------------------------------

\* The longest transaction list.
MaxTx == 3

\* The transactions the lists are drawn from: purchases and sales against
\* EUR and swaps between BTC and XMR, before, in and after the year reported.
TxPool ==
    { Transaction("b1", 20200110, "Buy", Dec(5, 0), "XMR", Dec(300, 0), "EUR"),
      Transaction("s1", 20200220, "Sell", Dec(10, 0), "XMR", Dec(900, 0), "EUR"),
      Transaction("s2", 20200220, "Sell", Dec(7, 0), "XMR", Dec(450, 0), "EUR"),
      Transaction("s3", 20200220, "Sell", Dec(4, -8), "XMR", Dec(1, 0), "EUR"),
      Transaction("b0", 20191215, "Buy", Dec(7, 0), "XMR", Dec(300, 0), "EUR"),
      Transaction("s0", 20191215, "Sell", Dec(4, 0), "XMR", Dec(200, 0), "EUR"),
      Transaction("x0", 20191215, "Sell", Dec(2, 0), "XMR", Dec(1, -2), "BTC"),
      Transaction("bx", 20200220, "Buy", Dec(140, 0), "XMR", Dec(1, 0), "BTC"),
      Transaction("bb", 20200220, "Buy", Dec(5, -2), "BTC", Dec(8, 0), "XMR"),
      Transaction("sx", 20200220, "Sell", Dec(8, 0), "XMR", Dec(5, -2), "BTC"),
      Transaction("sb", 20200220, "Sell", Dec(1, 0), "BTC", Dec(140, 0), "XMR"),
      Transaction("s9", 20210105, "Sell", Dec(3, 0), "XMR", Dec(250, 0), "EUR"),
      Transaction("b9", 20210105, "Buy", Dec(2, 0), "XMR", Dec(130, 0), "EUR") }

\* The lists of at most k transactions of the pool.
RECURSIVE TxLists(_)
TxLists(k) ==
    IF k = 0 THEN {<<>>}
    ELSE Bind(TxLists(k - 1), LAMBDA shorter :
            shorter \cup
            {Append(l, tx) : l \in {x \in shorter : Len(x) = k - 1},
                             tx \in TxPool})

\* TaxEngine(year, criterio, initial_inventory, transactions)
Init ==
    /\ criterio \in Criteria
    /\ initial_inventory \in InitInventories
    /\ baskets = initial_inventory
    /\ tax_events = EmptyDict
    /\ transactions \in TxLists(MaxTx)
    /\ n = 0
    /\ pc = "start"
    /\ prev = [baskets |-> baskets, tax_events |-> EmptyDict]
    /\ call = NoCall
    /\ calls = 0

\* The place of the loop once it has dealt with index i of a list of length k.
AfterIndex(i, k) == IF i >= k THEN "done" ELSE "loop"

\* process_transactions up to its loop: the list is sorted by date.
StartProcessing ==
    /\ pc = "start"
    /\ transactions' = init_transactions(transactions)
    /\ n' = 0
    /\ pc' = AfterIndex(0, Len(transactions))
    /\ UNCHANGED <<criterio, initial_inventory, baskets, tax_events, prev, call,
                   calls>>

\* One iteration of "for n, tx in enumerate(self.transactions)"; n counts the
\* transactions the loop has dealt with.  An exception ends the loop.
ProcessTx ==
    /\ pc = "loop"
    /\ \E r \in {ProcessOne(baskets, tax_events, criterio,
                            transactions[n + 1])} :
           /\ baskets' = r.baskets
           /\ tax_events' = r.tax_events
           /\ call' = r.call
           /\ pc' = IF r.error # "none" THEN r.error
                    ELSE AfterIndex(n + 1, Len(transactions))
    /\ prev' = [baskets |-> baskets, tax_events |-> tax_events]
    /\ n' = n + 1
    /\ UNCHANGED <<criterio, initial_inventory, transactions, calls>>

Next == StartProcessing \/ ProcessTx

Spec == Init /\ [][Next]_vars

\* ------------------------------------------------------------------------
\* Exact quantities, for stating the claims: no rounding takes place here
\* ------------------------------------------------------------------------

\* The least exponent among the quantities of lots, and m.
RECURSIVE MinExp(_, _)
MinExp(lots, m) ==
    IF lots = <<>> THEN m
    ELSE MinExp(Tail(lots), MinInt(m, Head(lots).qty.e))

\* The Decimal d as an exact count of 10^m (m at most d.e).
Units(d, m) == d.c * Pow10(d.e - m)

\* The exact sum of the quantities of lots, as a count of 10^m.
RECURSIVE ExactQty(_, _)
ExactQty(lots, m) ==
    IF lots = <<>> THEN 0
    ELSE Units(Head(lots).qty, m) + ExactQty(Tail(lots), m)

\* The lots of asset a in the inventory bk (none when it has no basket).
LotsOf(bk, a) == IF a \in DOMAIN bk THEN bk[a].lots ELSE <<>>

\* The last call was assign_lot and it returned a basket.
Assigned == call.op = "assign_lot" /\ call.outcome = "ok"

\* The inventory lots of the call's asset before and after the call, the
\* fragments returned, and an exponent all their quantities are counts of.
BeforeLots == LotsOf(call.before, call.asset)

AfterLots == LotsOf(baskets, call.asset)

ReturnedLots == call.returned.lots

CallExp ==
    MinExp(BeforeLots, MinExp(AfterLots, MinExp(ReturnedLots, call.qty.e)))

\* Two lots that are the same acquisition: same date, asset and unit cost.
SameAcquisition(l1, l2) ==
    l1.date = l2.date /\ l1.asset = l2.asset /\ l1.cost = l2.cost

\* Every basket but the call's asset's is as it was before the call.
OtherBasketsUntouched ==
    /\ DOMAIN baskets \ {call.asset} = DOMAIN call.before \ {call.asset}
    /\ \A x \in DOMAIN call.before \ {call.asset} : baskets[x] = call.before[x]

\* ------------------------------------------------------------------------
\* Claims
\* ------------------------------------------------------------------------

\* C1: lot conservation.  For every assign_lot(asset, q) that returns, the
\* basket's total quantity before the call equals its total quantity after
\* the call plus the total quantity of the returned basket.
C1_LotConservation ==
    Assigned =>
        ExactQty(BeforeLots, CallExp)
            = ExactQty(AfterLots, CallExp) + ExactQty(ReturnedLots, CallExp)

\* C2: whenever assign_lot(asset, q) with q > 0 returns a basket, its total
\* quantity is q exactly, and the assertion that ends assign_lot never fails.
C2_ReturnedEqualsRequested ==
    call.op = "assign_lot" =>
        /\ call.outcome # "AssertionError"
        /\ call.outcome = "ok" =>
              ExactQty(ReturnedLots, CallExp) = Units(call.qty, CallExp)

\* C3: FIFO order.  Under FIFO the fragments assign_lot returns are a prefix
\* of the basket's lots in the same order, all whole but possibly the last;
\* the lots left are the untouched suffix, its head possibly reduced; a
\* quantity of at most the first lot's changes no other lot; no other basket
\* changes.  When assign_lot raises, what is left is still such a suffix.
C3_FifoOrder ==
    (call.op = "assign_lot" /\ criterio = "FIFO") =>
        LET b == BeforeLots
            a == AfterLots
            r == ReturnedLots
            k == Len(r)
            cut == Len(b) - Len(a)
        IN  /\ OtherBasketsUntouched
            /\ cut >= 0
            /\ \A i \in 2..Len(a) : a[i] = b[cut + i]
            /\ Len(a) >= 1 => SameAcquisition(a[1], b[cut + 1])
            /\ call.outcome = "ok" =>
                  /\ k <= Len(b)
                  /\ \A i \in 1..(k - 1) : r[i] = b[i]
                  /\ k >= 1 => SameAcquisition(r[k], b[k])
                  /\ \/ k = 0 /\ a = b
                     \/ k >= 1 /\ r[k] = b[k] /\ cut = k
                     \/ k >= 1 /\ r[k] # b[k] /\ cut = k - 1
                  /\ (b # <<>> /\ DLe(call.qty, b[1].qty)) =>
                        /\ k = 1
                        /\ \A i \in 2..Len(b) : a[i - cut] = b[i]

\* C3's case: a FIFO call that retired the oldest lot whole and split the next.
C3_Witness ==
    /\ Assigned
    /\ criterio = "FIFO"
    /\ Len(ReturnedLots) = 2
    /\ Len(BeforeLots) >= 2
    /\ ReturnedLots[1] = BeforeLots[1]
    /\ ReturnedLots[2] # BeforeLots[2]
    /\ Len(AfterLots) = Len(BeforeLots) - 1
    /\ AfterLots[1].qty # BeforeLots[2].qty

\* C4: LIFO order.  Under LIFO the fragments returned are the basket's suffix
\* in reverse order, all whole but possibly the last; the lots left are the
\* untouched prefix, its tail possibly reduced; a quantity of at most the
\* last lot's changes no other lot; no other basket changes.
C4_LifoOrder ==
    (call.op = "assign_lot" /\ criterio = "LIFO") =>
        LET b == BeforeLots
            a == AfterLots
            r == ReturnedLots
            k == Len(r)
            cut == Len(b) - Len(a)
        IN  /\ OtherBasketsUntouched
            /\ cut >= 0
            /\ \A i \in 1..(Len(a) - 1) : a[i] = b[i]
            /\ Len(a) >= 1 => SameAcquisition(a[Len(a)], b[Len(a)])
            /\ call.outcome = "ok" =>
                  /\ k <= Len(b)
                  /\ \A i \in 1..(k - 1) : r[i] = b[Len(b) + 1 - i]
                  /\ k >= 1 => SameAcquisition(r[k], b[Len(b) + 1 - k])
                  /\ \/ k = 0 /\ a = b
                     \/ k >= 1 /\ r[k] = b[Len(b) + 1 - k] /\ cut = k
                     \/ k >= 1 /\ r[k] # b[Len(b) + 1 - k] /\ cut = k - 1
                  /\ (b # <<>> /\ DLe(call.qty, b[Len(b)].qty)) =>
                        /\ k = 1
                        /\ \A i \in 1..(Len(b) - 1) : a[i] = b[i]

\* C4's case: a LIFO call that retired the newest lot whole and split the
\* one before it.
C4_Witness ==
    /\ Assigned
    /\ criterio = "LIFO"
    /\ Len(ReturnedLots) = 2
    /\ Len(BeforeLots) >= 2
    /\ ReturnedLots[1] = BeforeLots[Len(BeforeLots)]
    /\ ReturnedLots[2] # BeforeLots[Len(BeforeLots) - 1]
    /\ Len(AfterLots) = Len(BeforeLots) - 1
    /\ AfterLots[Len(AfterLots)].qty # BeforeLots[Len(AfterLots)].qty

\* C5: insufficient inventory.  assign_lot(asset, q) with q greater than the
\* basket's total quantity fails with InsufficientInventoryError and leaves
\* the inventory exactly as it was before the call.
C5_InsufficientInventory ==
    (/\ call.op = "assign_lot"
     /\ Units(call.qty, CallExp) > ExactQty(BeforeLots, CallExp)) =>
        /\ call.outcome = "InsufficientInventoryError"
        /\ baskets = call.before

\* ------------------------------------------------------------------------
\* Claims about process_transactions (Spec)
\* ------------------------------------------------------------------------

\* The loop has dealt with a transaction: LastTx.
Processed == pc \notin {"api", "start"} /\ n >= 1

LastTx == transactions[n]

\* The last iteration ran to its end, without an exception.
RanToEnd == Processed /\ pc \in {"loop", "done"}

\* process_transactions is over: the loop ended or an exception left it.
Finished == pc \notin {"api", "start", "loop"}

\* A transaction dated after the year reported.
FutureDated(tx) == YearOf(tx.date) > Year

\* A direct swap between the two valuation assets.
IsSwap(tx) ==
    /\ tx.type \in {"Buy", "Sell"}
    /\ {tx.asset1, tx.asset2} = {"BTC", "XMR"}

\* price(asset, date): the asset's own price table.
Price(asset, date) == IF asset = "BTC" THEN btceur[date] ELSE xmreur[date]

\* VT with each quantity valued at the price of its own asset.
OwnPriceVt(tx) ==
    DMax(DMul(Price(tx.asset1, tx.date), tx.qty1),
         DMul(Price(tx.asset2, tx.date), tx.qty2))

\* What a swap produces: asset1 and qty1 for a Buy, asset2 and qty2 for a Sell.
ProducedAsset(tx) == IF tx.type = "Buy" THEN tx.asset1 ELSE tx.asset2

ProducedQty(tx) == IF tx.type = "Buy" THEN tx.qty1 ELSE tx.qty2


\* The events the last iteration added to the ledger.
NewEvents ==
    { tax_events[a][Len(tax_events[a])] :
        a \in {x \in DOMAIN tax_events :
                 tax_events[x] # EventsOf(prev.tax_events, x)} }

\* The last lot of the basket of asset a.
LastLot(bk, a) == bk[a].lots[Len(bk[a].lots)]

\* C6: swap valuation.  After every swap the loop has processed, the lot
\* produced has unit cost VT / produced quantity and the event recorded has
\* income VT, where VT = max(price(asset1) * qty1, price(asset2) * qty2), each
\* quantity multiplied by the price of its own asset.
C6_SwapValuation ==
    (RanToEnd /\ IsSwap(LastTx) /\ ~FutureDated(LastTx)
        /\ DGt(ProducedQty(LastTx), Zero)) =>
        LET vt == OwnPriceVt(LastTx)
            pa == ProducedAsset(LastTx)
        IN  /\ pa \in DOMAIN baskets
            /\ baskets[pa].lots # <<>>
            /\ LastLot(baskets, pa).qty = ProducedQty(LastTx)
            /\ LastLot(baskets, pa).cost = DDiv(vt, ProducedQty(LastTx))
            /\ \A ev \in NewEvents : ev.income = vt
            /\ YearOf(LastTx.date) = Year => NewEvents # {}

\* C7: every tax event is stored under the asset whose lots were consumed:
\* its key is the asset of every lot of its trace; a Buy-via-swap of the
\* year reported records its event under asset2.
C7_EventUnderConsumedAsset ==
    /\ \A a \in DOMAIN tax_events :
          \A i \in 1..Len(tax_events[a]) :
             \A j \in 1..Len(tax_events[a][i].trace.lots) :
                tax_events[a][i].trace.lots[j].asset = a
    /\ (RanToEnd /\ IsSwap(LastTx) /\ LastTx.type = "Buy"
           /\ YearOf(LastTx.date) = Year /\ DGt(LastTx.qty2, Zero)) =>
          /\ LastTx.asset2 \in DOMAIN tax_events
          /\ tax_events[LastTx.asset2] # EventsOf(prev.tax_events, LastTx.asset2)

\* C8: future-dated transactions are never processed.  An iteration over a
\* transaction dated after the year reported consumes no lot, adds no lot and
\* records no event; and what process_transactions leaves is what it leaves
\* on the same list without the transactions dated after the year reported.
C8_FutureNeverProcessed ==
    /\ (Processed /\ FutureDated(LastTx)) =>
          /\ baskets = prev.baskets
          /\ tax_events = prev.tax_events
          /\ call = NoCall
          /\ pc \in {"loop", "done"}
    /\ Finished =>
          LET r == process_transactions(
                       initial_inventory, criterio,
                       SelectSeq(transactions, LAMBDA tx : ~FutureDated(tx)))
          IN  /\ baskets = r.baskets
              /\ tax_events = r.tax_events
              /\ pc = IF r.error = "none" THEN "done" ELSE r.error

\* C8's case: a run that changed the inventory and recorded an event, and
\* then passed over a sale dated after the year reported whose asset was in
\* stock.
C8_Witness ==
    /\ pc = "done"
    /\ Processed
    /\ FutureDated(LastTx)
    /\ LastTx.type = "Sell"
    /\ LotsOf(baskets, LastTx.asset1) # <<>>
    /\ baskets # initial_inventory
    /\ tax_events # EmptyDict

\* C9: every event of the ledger is dated in the year reported; an iteration
\* over a transaction of an earlier year changes the inventory and leaves the
\* ledger as it was.
C9_EventsInReportingYear ==
    /\ \A a \in DOMAIN tax_events :
          \A i \in 1..Len(tax_events[a]) :
             YearOf(tax_events[a][i].date) = Year
    /\ (RanToEnd /\ YearOf(LastTx.date) < Year) =>
          /\ tax_events = prev.tax_events
          /\ baskets # prev.baskets

\* C9's case: a sale of an earlier year that consumed lots.
C9_Witness ==
    /\ RanToEnd
    /\ YearOf(LastTx.date) < Year
    /\ LastTx.type = "Sell"
    /\ call.op = "assign_lot"
    /\ call.outcome = "ok"
    /\ Len(call.returned.lots) >= 1
    /\ baskets # prev.baskets

\* C10: Buy-for-fiat.  Processing a Buy against the base asset with qty1 > 0
\* consumes nothing, appends one lot of qty1 units of asset1 at unit cost
\* qty2 / qty1 dated as the transaction at the end of asset1's basket, which
\* it creates when absent, and records no event.
C10_BuyForFiat ==
    (/\ Processed
     /\ ~FutureDated(LastTx)
     /\ LastTx.type = "Buy"
     /\ LastTx.asset2 = base_asset
     /\ DGt(LastTx.qty1, Zero)) =>
        /\ RanToEnd
        /\ call = NoCall
        /\ DOMAIN baskets = DOMAIN prev.baskets \cup {LastTx.asset1}
        /\ \A a \in DOMAIN prev.baskets \ {LastTx.asset1} :
              baskets[a] = prev.baskets[a]
        /\ baskets[LastTx.asset1].asset = LastTx.asset1
        /\ baskets[LastTx.asset1].lots =
              Append(LotsOf(prev.baskets, LastTx.asset1),
                     Lot(LastTx.date, LastTx.asset1, LastTx.qty1,
                         DDiv(LastTx.qty2, LastTx.qty1)))
        /\ tax_events = prev.tax_events

\* C10's case: a purchase added to a basket that held lots already, at a
\* unit cost the division rounds.
C10_Witness ==
    /\ Processed
    /\ LastTx.type = "Buy"
    /\ LastTx.asset2 = base_asset
    /\ ~FutureDated(LastTx)
    /\ Len(LotsOf(prev.baskets, LastTx.asset1)) >= 2
    /\ Len(LotsOf(baskets, LastTx.asset1)) >= 3
    /\ LastLot(baskets, LastTx.asset1).cost = Dec(42857143, -6)

\* ------------------------------------------------------------------------
\* Exact totals of quantities of at most 8 decimals, whatever their size
\* ------------------------------------------------------------------------

\* The whole units of the quantity d >= 0, and the rest in units of 10^-8.
Whole(d) == IF d.e >= 0 THEN d.c * Pow10(d.e) ELSE d.c \div Pow10(-d.e)

Frac8(d) == IF d.e >= 0 THEN 0 ELSE (d.c % Pow10(-d.e)) * Pow10(8 + d.e)

\* w whole units and f units of 10^-8, with f brought below one whole unit.
Carry8(w, f) == [w |-> w + f \div Pow10(8), f |-> f % Pow10(8)]

RECURSIVE SumWhole(_)
SumWhole(lots) ==
    IF lots = <<>> THEN 0 ELSE Whole(Head(lots).qty) + SumWhole(Tail(lots))

RECURSIVE SumFrac8(_)
SumFrac8(lots) ==
    IF lots = <<>> THEN 0 ELSE Frac8(Head(lots).qty) + SumFrac8(Tail(lots))

\* The exact total quantity of lots, and the same with the quantity d added.
ExactTotal(lots) == Carry8(SumWhole(lots), SumFrac8(lots))

ExactTotalPlus(lots, d) ==
    Carry8(SumWhole(lots) + Whole(d), SumFrac8(lots) + Frac8(d))

\* The exact total a is at least the exact total b.
ExactGe(a, b) == a.w > b.w \/ (a.w = b.w /\ a.f >= b.f)

\* The last iteration dealt with a Sell against the base asset, dated in the
\* year reported, of a positive quantity the inventory held in full.
SoldForFiat ==
    /\ Processed
    /\ LastTx.type = "Sell"
    /\ LastTx.asset2 = base_asset
    /\ YearOf(LastTx.date) = Year
    /\ DGt(LastTx.qty1, Zero)
    /\ ExactGe(ExactTotal(LotsOf(prev.baskets, LastTx.asset1)),
               ExactTotalPlus(<<>>, LastTx.qty1))

\* C11: Sell-for-fiat.  A Sell against the base asset in the year reported,
\* with the quantity in stock, consumes exactly qty1 units of asset1, adds no
\* lot and appends one event under asset1 whose quantity is qty1, whose
\* income is qty2, whose cost is the total cost of the fragments consumed and
\* whose result is income - cost.
C11_SellForFiat ==
    SoldForFiat =>
        LET a == LastTx.asset1
            before == LotsOf(prev.baskets, a)
            after == LotsOf(baskets, a)
            old == EventsOf(prev.tax_events, a)
            new == EventsOf(tax_events, a)
        IN  /\ RanToEnd
            /\ ExactTotal(before) = ExactTotalPlus(after, LastTx.qty1)
            /\ Len(after) <= Len(before)
            /\ DOMAIN baskets = DOMAIN prev.baskets
            /\ \A x \in DOMAIN baskets \ {a} : baskets[x] = prev.baskets[x]
            /\ Len(new) = Len(old) + 1
            /\ SubSeq(new, 1, Len(old)) = old
            /\ \A x \in DOMAIN tax_events \ {a} :
                  tax_events[x] = EventsOf(prev.tax_events, x)
            /\ new[Len(new)].date = LastTx.date
            /\ new[Len(new)].qty = LastTx.qty1
            /\ new[Len(new)].income = LastTx.qty2
            /\ new[Len(new)].trace = call.returned
            /\ new[Len(new)].cost = total_cost(call.returned)
            /\ new[Len(new)].result =
                  DSub(LastTx.qty2, total_cost(call.returned))

\* ------------------------------------------------------------------------
\* Baskets built and filled by hand, then used by the engine: SpecBaskets
\* ------------------------------------------------------------------------

\* LotBasket.__init__ with its lots argument: the list is taken as it is.
NewLotBasket(asset, lots) == [asset |-> asset, lots |-> lots]

\* The baskets constructed: empty, of lots of their asset, and of a lot of
\* another asset.
BasketPool ==
    { NewLotBasket("XMR", <<>>),
      NewLotBasket("XMR", << Lot(20200110, "XMR", Dec(5, 0), Dec(60, 0)) >>),
      NewLotBasket("BTC", << Lot(20200301, "BTC", Dec(100, 0), Dec(9000, 0)),
                             Lot(20200302, "BTC", Dec(6, -6), Dec(9500, 0)) >>),
      NewLotBasket("XMR", << Lot(20200301, "BTC", Dec(100, 0), Dec(9000, 0)) >>) }

\* inventory.add_basket(basket) of a basket just constructed
CallAddBasket(basket) ==
    /\ pc = "api"
    /\ calls < MaxCalls
    /\ baskets' = InventoryAddBasket(baskets, basket)
    /\ call' = [op |-> "add_basket", asset |-> basket.asset, qty |-> Zero,
                before |-> baskets, returned |-> basket, outcome |-> "ok",
                iters |-> 0]
    /\ calls' = calls + 1
    /\ UNCHANGED <<criterio, initial_inventory, tax_events, transactions, n, pc,
                   prev>>

\* inventory.baskets[asset].add_lot(lot)
CallBasketAddLot(asset, lot) ==
    /\ pc = "api"
    /\ calls < MaxCalls
    /\ asset \in DOMAIN baskets
    /\ \E r \in {BasketAddLot(baskets[asset], lot)} :
           /\ baskets' = [baskets EXCEPT ![asset] = r.basket]
           /\ call' = [op |-> "add_lot", asset |-> asset, qty |-> lot.qty,
                       before |-> baskets, returned |-> NoBasket,
                       outcome |-> IF r.ok THEN "ok" ELSE "ValueError",
                       iters |-> 0, lot |-> lot]
    /\ calls' = calls + 1
    /\ UNCHANGED <<criterio, initial_inventory, tax_events, transactions, n, pc,
                   prev>>

AddBasketStep == \E basket \in BasketPool : CallAddBasket(basket)

BasketAddLotStep ==
    \E asset \in {"XMR", "BTC"}, lot \in RecordPool :
        CallBasketAddLot(asset, lot)

NextBaskets ==
    AddBasketStep \/ BasketAddLotStep \/ RecordLotStep \/ AssignLotStep

SpecBaskets == InitLots /\ [][NextBaskets]_vars

\* Every lot of the basket has the basket's asset.
Homogeneous(basket) ==
    \A i \in 1..Len(basket.lots) : basket.lots[i].asset = basket.asset

\* C12: basket homogeneity.  Every lot of every basket of the inventory, and
\* of every basket assign_lot returns, has the basket's asset; each basket is
\* kept under its own asset; adding a lot of another asset to a basket fails
\* with a ValueError and leaves the basket as it was.
C12_BasketHomogeneity ==
    /\ \A a \in DOMAIN baskets :
          baskets[a].asset = a /\ Homogeneous(baskets[a])
    /\ (call.op = "assign_lot" /\ call.outcome = "ok") =>
          call.returned.asset = call.asset /\ Homogeneous(call.returned)
    /\ (call.op = "add_lot" /\ call.lot.asset # call.before[call.asset].asset) =>
          call.outcome = "ValueError" /\ baskets = call.before

\* ------------------------------------------------------------------------
\* process_transactions on malformed input: SpecFaulty
\* ------------------------------------------------------------------------

\* The longest list of SpecFaulty.
MaxFaultTx == 3

\* Transactions of each of the four shapes with a zero quantity, with an
\* asset2 no handler is registered for, and swaps on dates without a price;
\* and two well-formed ones.
FaultPool ==
    { Transaction("z1", 20200110, "Buy", Zero, "XMR", Dec(300, 0), "EUR"),
      Transaction("z2", 20200110, "Buy", Dec(5, 0), "XMR", Zero, "EUR"),
      Transaction("z3", 20200220, "Sell", Zero, "XMR", Dec(100, 0), "EUR"),
      Transaction("z4", 20200220, "Sell", Dec(3, 0), "XMR", Zero, "EUR"),
      Transaction("z5", 20200220, "Buy", Zero, "XMR", Dec(1, 0), "BTC"),
      Transaction("z6", 20200220, "Buy", Dec(140, 0), "XMR", Zero, "BTC"),
      Transaction("z7", 20200220, "Sell", Zero, "XMR", Dec(5, -2), "BTC"),
      Transaction("z8", 20200220, "Sell", Dec(8, 0), "XMR", Zero, "BTC"),
      Transaction("z9", 20200110, "Buy", Zero, "XMR", Zero, "EUR"),
      Transaction("h1", 20200110, "Buy", Dec(5, 0), "XMR", Dec(300, 0), "USD"),
      Transaction("h2", 20191215, "Swap", Dec(5, 0), "XMR", Dec(300, 0), "EUR"),
      Transaction("p1", 20200110, "Sell", Dec(8, 0), "XMR", Dec(5, -2), "BTC"),
      Transaction("p2", 20200315, "Buy", Dec(140, 0), "XMR", Dec(1, 0), "BTC"),
      Transaction("b1", 20200110, "Buy", Dec(5, 0), "XMR", Dec(300, 0), "EUR"),
      Transaction("s2", 20200220, "Sell", Dec(7, 0), "XMR", Dec(450, 0), "EUR") }

\* The lists of at most k transactions of pool.
RECURSIVE TxListsOf(_, _)
TxListsOf(pool, k) ==
    IF k = 0 THEN {<<>>}
    ELSE Bind(TxListsOf(pool, k - 1), LAMBDA shorter :
            shorter \cup
            {Append(l, tx) : l \in {x \in shorter : Len(x) = k - 1},
                             tx \in pool})

\* TaxEngine(year, criterio, initial_inventory, transactions)
InitFaulty ==
    /\ criterio \in Criteria
    /\ initial_inventory \in InitInventories
    /\ baskets = initial_inventory
    /\ tax_events = EmptyDict
    /\ transactions \in TxListsOf(FaultPool, MaxFaultTx)
    /\ n = 0
    /\ pc = "start"
    /\ prev = [baskets |-> baskets, tax_events |-> EmptyDict]
    /\ call = NoCall
    /\ calls = 0

SpecFaulty == InitFaulty /\ [][Next]_vars

\* A transaction of one of the four shapes: Buy or Sell against the base
\* asset or a swap asset.
FourShapes(tx) ==
    tx.type \in {"Buy", "Sell"} /\ tx.asset2 \in {base_asset, "BTC", "XMR"}

\* Both price tables hold a price of the date.
PricedOn(date) == date \in DOMAIN btceur /\ date \in DOMAIN xmreur

\* C13: zero-quantity transactions are rejected.  Processing a transaction
\* of one of the four shapes whose qty1 or qty2 is zero fails with
\* InvalidTransactionError: it consumes no lot, adds no lot, records no
\* event, and does not end as a division error.
C13_ZeroQuantityRejected ==
    (/\ Processed
     /\ ~FutureDated(LastTx)
     /\ FourShapes(LastTx)
     /\ (LastTx.asset2 = base_asset \/ PricedOn(LastTx.date))
     /\ (LastTx.qty1 = Zero \/ LastTx.qty2 = Zero)) =>
        /\ pc = "InvalidTransactionError"
        /\ baskets = prev.baskets
        /\ tax_events = prev.tax_events

\* A transaction, dated in the year reported or before, that cannot be
\* classified: no handler for its (type, asset2), or a swap on a date one of
\* the price tables has no entry for.
Unclassifiable(tx) ==
    /\ ~FutureDated(tx)
    /\ \/ ~FourShapes(tx)
       \/ tx.asset2 \in {"BTC", "XMR"} /\ ~PricedOn(tx.date)

\* C14: halt on classification failure.  When the loop reaches a transaction
\* that cannot be classified, processing stops with an error; the inventory
\* and the ledger stay as they were before that transaction, which is what
\* the transactions before it left; no transaction after it is processed.
C14_HaltOnClassificationFailure ==
    (Processed /\ Unclassifiable(LastTx)) =>
        /\ pc \in {"TypeError", "KeyError"}
        /\ call = NoCall
        /\ baskets = prev.baskets
        /\ tax_events = prev.tax_events
        /\ LET r == process_transactions(initial_inventory, criterio,
                                         SubSeq(transactions, 1, n - 1))
           IN  /\ r.error = "none"
               /\ baskets = r.baskets
               /\ tax_events = r.tax_events

\* C14's case: after a purchase and a sale were applied, a swap on a date
\* with no price stopped the run, one transaction before the list's end.
C14_Witness ==
    /\ Processed
    /\ Unclassifiable(LastTx)
    /\ LastTx.asset2 \in {"BTC", "XMR"}
    /\ pc = "KeyError"
    /\ n >= 2
    /\ baskets # initial_inventory
    /\ tax_events # EmptyDict

\* ------------------------------------------------------------------------
\* Claims about the baskets' aggregates (SpecLots)
\* ------------------------------------------------------------------------

\* The baskets a state holds: the inventory's, and the one the last call of
\* assign_lot returned.
StateBaskets ==
    {baskets[a] : a \in DOMAIN baskets}
        \cup (IF Assigned THEN {call.returned} ELSE {})

year_summary(ev) ==
    [a \in DOMAIN ev |->
        [v_transmision |->
            SumDec([i \in 1..Len(ev[a]) |-> ev[a][i].income]),
         v_adquisicion |->
            SumDec([i \in 1..Len(ev[a]) |-> ev[a][i].cost]),
         ganancia |->
            SumDec([i \in 1..Len(ev[a]) |-> ev[a][i].result])]]

\* tax_report.year_summary(), called as main() calls it: once
\* process_transactions has returned.  The sums are kept in call.summary.
YearSummary ==
    /\ pc = "done"
    /\ \E r \in {year_summary(tax_events)} :
           call' = [op |-> "year_summary", asset |-> "none", qty |-> Zero,
                    before |-> baskets, returned |-> NoBasket,
                    outcome |-> "ok", iters |-> 0, summary |-> r]
    /\ prev' = [baskets |-> baskets, tax_events |-> tax_events]
    /\ pc' = "reported"
    /\ UNCHANGED <<criterio, initial_inventory, baskets, tax_events,
                   transactions, n, calls>>

NextSummary == StartProcessing \/ ProcessTx \/ YearSummary

SpecSummary == Init /\ [][NextSummary]_vars

\* Exact amounts, for stating the claim: an amount is four limbs of seven
\* decimal digits counting 10^-21, 10^-14, 10^-7 and units; no rounding
\* takes place here.

\* Limb j of c * 10^(s - 21), for c >= 0 and s >= 0.
Limb(c, s, j) ==
    LET t == s - 7 * j
    IN  IF j = 3
        THEN IF t >= 0 THEN c * Pow10(t)
             ELSE IF -t > 9 THEN 0 ELSE c \div Pow10(-t)
        ELSE IF t >= 7 THEN 0
        ELSE IF t >= 0 THEN (c % Pow10(7 - t)) * Pow10(t)
        ELSE IF -t > 9 THEN 0 ELSE (c \div Pow10(-t)) % Pow10(7)

\* The Decimal d (of exponent -21 at least) as limbs, each of d's sign.
Exact(d) == [j \in 0..3 |-> Sign(d.c) * Limb(Abs(d.c), d.e + 21, j)]

\* The exact sum and difference of limbs.
ExactPlus(x, y) == [j \in 0..3 |-> x[j] + y[j]]

ExactMinus(x, y) == [j \in 0..3 |-> x[j] - y[j]]

\* The exact sum of the Decimals of s.
RECURSIVE ExactSum(_)
ExactSum(s) ==
    IF s = <<>> THEN [j \in 0..3 |-> 0]
    ELSE ExactPlus(Exact(Head(s)), ExactSum(Tail(s)))

\* Limbs with the carries made: equal amounts have equal canonical limbs.
Canonical(x) ==
    LET n0 == x[0]
        n1 == x[1] + n0 \div Pow10(7)
        n2 == x[2] + n1 \div Pow10(7)
        n3 == x[3] + n2 \div Pow10(7)
    IN  <<n0 % Pow10(7), n1 % Pow10(7), n2 % Pow10(7), n3>>

\* The Decimal d is the exact amount x.
IsExactly(d, x) == Canonical(Exact(d)) = Canonical(x)

\* C16: year summary.  For every asset with recorded tax events, the three
\* aggregates year_summary computes are the exact sums of proceeds, cost and
\* gain over the asset's events, the gain aggregate is the proceeds aggregate
\* minus the cost aggregate, and year_summary changes neither the ledger nor
\* the inventory.
C16_YearSummary ==
    call.op = "year_summary" =>
        /\ baskets = prev.baskets
        /\ tax_events = prev.tax_events
        /\ DOMAIN call.summary = DOMAIN tax_events
        /\ \A a \in DOMAIN tax_events :
              LET evs == tax_events[a]
                  sums == call.summary[a]
              IN  /\ IsExactly(sums.v_transmision,
                        ExactSum([i \in 1..Len(evs) |-> evs[i].income]))
                  /\ IsExactly(sums.v_adquisicion,
                        ExactSum([i \in 1..Len(evs) |-> evs[i].cost]))
                  /\ IsExactly(sums.ganancia,
                        ExactSum([i \in 1..Len(evs) |-> evs[i].result]))
                  /\ IsExactly(sums.ganancia,
                        ExactMinus(Exact(sums.v_transmision),
                                   Exact(sums.v_adquisicion)))

\* ------------------------------------------------------------------------
\* Claims about the order of processing (Spec)
\* ------------------------------------------------------------------------

\* The dates of txs never decrease.
DateOrdered(txs) ==
    \A i \in 1..(Len(txs) - 1) : txs[i].date <= txs[i + 1].date

\* The dates of txs are pairwise distinct.
DistinctDates(txs) ==
    \A i, j \in 1..Len(txs) : i # j => txs[i].date # txs[j].date

\* The transactions of txs dated d, in the order of txs.
DatedOn(txs, d) == SelectSeq(txs, LAMBDA tx : tx.date = d)

\* out is txs in date order, transactions of one date in the order of txs.
StableSortOf(out, txs) ==
    /\ Len(out) = Len(txs)
    /\ DateOrdered(out)
    /\ \A d \in {txs[i].date : i \in 1..Len(txs)}
              \cup {out[i].date : i \in 1..Len(out)} :
           DatedOn(out, d) = DatedOn(txs, d)

\* The lists that are txs in another order.
Reorderings(txs) ==
    {[i \in 1..Len(txs) |-> txs[f[i]]] : f \in Permutations(1..Len(txs))}

\* process_transactions has left the engine as the result r says.
LeftAs(r) ==
    /\ baskets = r.baskets
    /\ tax_events = r.tax_events
    /\ pc = IF r.error = "none" THEN "done" ELSE r.error

\* C17: input order independence.  process_transactions sorts the list by
\* date before it applies it, transactions of one date staying in their
\* input order; the transactions are applied in non-decreasing date order;
\* and every reordering of a list of pairwise distinct dates leaves the same
\* inventory and the same ledger.
C17_InputOrderIndependence ==
    /\ [][pc = "start" => StableSortOf(transactions', transactions)]_vars
    /\ [](pc # "start" => DateOrdered(transactions))
    /\ []((Finished /\ DistinctDates(transactions)) =>
             \A txs \in Reorderings(transactions) :
                 LeftAs(process_transactions(initial_inventory, criterio,
                                             txs)))

\* C17's case: the loop has come to the end of three transactions of three
\* dates which, applied in some other order, leave another result.
C17_Witness ==
    /\ pc = "done"
    /\ Len(transactions) = 3
    /\ DistinctDates(transactions)
    /\ tax_events # EmptyDict
    /\ \E txs \in Reorderings(transactions) :
           RunLoop(initial_inventory, EmptyDict, criterio, txs)
               # RunLoop(initial_inventory, EmptyDict, criterio, transactions)

\* The acquisition dates of the basket's lots never decrease.
ChronologicalBasket(basket) ==
    \A i \in 1..(Len(basket.lots) - 1) :
        basket.lots[i].date <= basket.lots[i + 1].date

\* Every basket of the inventory bk is in date order.
Chronological(bk) == \A a \in DOMAIN bk : ChronologicalBasket(bk[a])

\* The lot at index 0 is one of the oldest, the lot at the last index one of
\* the newest.
OldestFirstNewestLast(basket) ==
    \A i \in 1..Len(basket.lots) :
        /\ basket.lots[1].date <= basket.lots[i].date
        /\ basket.lots[i].date <= basket.lots[Len(basket.lots)].date

\* C18: basket order encodes acquisition chronology.  From an opening
\* inventory whose baskets are each in non-decreasing date order, after
\* process_transactions has applied any prefix of the list every basket is
\* in non-decreasing date order, so that index 0 holds a lot of the oldest
\* date and the last index a lot of the newest.
C18_BasketOrderChronology ==
    (pc \in {"start", "loop", "done"} /\ Chronological(initial_inventory)) =>
        \A a \in DOMAIN baskets :
            /\ ChronologicalBasket(baskets[a])
            /\ OldestFirstNewestLast(baskets[a])

\* ------------------------------------------------------------------------
\* Claims about the lots assign_lot splits and retires (SpecLots)
\* ------------------------------------------------------------------------

\* The index in the basket before the call of the lot the i-th fragment
\* returned was taken from.
SourceIndex(i) ==
    IF criterio = "FIFO" THEN i ELSE Len(BeforeLots) + 1 - i

\* The index before the call of the lot now at index i of the basket.
FormerIndex(i) ==
    IF criterio = "FIFO" THEN i + Len(BeforeLots) - Len(AfterLots) ELSE i

\* The exact cost of a lot, quantity x unit cost, and of a list of lots.
ExactLotCost(lot) ==
    Exact([c |-> lot.qty.c * lot.cost.c, e |-> lot.qty.e + lot.cost.e])

RECURSIVE ExactCost(_)
ExactCost(lots) ==
    IF lots = <<>> THEN [j \in 0..3 |-> 0]
    ELSE ExactPlus(ExactLotCost(Head(lots)), ExactCost(Tail(lots)))

\* C19: cost-basis conservation on split.  Every fragment assign_lot returns
\* carries the date and the unit cost of the inventory lot it was taken
\* from; a partially consumed lot keeps its date, its unit cost and its
\* position in the basket; hence the basket's total cost before the call is
\* its total cost after the call plus the total cost of the returned basket.
C19_CostBasisConservation ==
    Assigned =>
        /\ Len(ReturnedLots) <= Len(BeforeLots)
        /\ \A i \in 1..Len(ReturnedLots) :
              SameAcquisition(ReturnedLots[i], BeforeLots[SourceIndex(i)])
        /\ Len(AfterLots) <= Len(BeforeLots)
        /\ \A i \in 1..Len(AfterLots) :
              SameAcquisition(AfterLots[i], BeforeLots[FormerIndex(i)])
        /\ Canonical(ExactCost(BeforeLots))
              = Canonical(ExactPlus(ExactCost(AfterLots),
                                    ExactCost(ReturnedLots)))

\* The fragments returned that are whole lots of the basket before the call.
WholeFragments ==
    {i \in 1..Len(ReturnedLots) :
        /\ SourceIndex(i) \in 1..Len(BeforeLots)
        /\ ReturnedLots[i].qty = BeforeLots[SourceIndex(i)].qty}

\* C20: no empty lots.  From an inventory whose lots all have a quantity
\* > 0, after any sequence of calls of record_lot with a quantity > 0 and of
\* assign_lot, every lot of every basket of the inventory and every fragment
\* of every returned basket has a quantity > 0; a lot consumed exactly is
\* removed from its basket, never left with quantity 0.
C20_NoEmptyLots ==
    /\ \A a \in DOMAIN baskets :
          \A i \in 1..Len(baskets[a].lots) :
              DGt(baskets[a].lots[i].qty, Zero)
    /\ Assigned =>
          /\ \A i \in 1..Len(ReturnedLots) : DGt(ReturnedLots[i].qty, Zero)
          /\ Len(AfterLots) = Len(BeforeLots) - Cardinality(WholeFragments)

\* C20's case: assign_lot was asked for exactly the quantity of the lot it
\* selected and retired it, in a basket where an earlier call had split
\* another lot, which is still there.
C20_Witness ==
    /\ Assigned
    /\ Len(ReturnedLots) = 1
    /\ call.qty = BeforeLots[SourceIndex(1)].qty
    /\ ReturnedLots[1] = BeforeLots[SourceIndex(1)]
    /\ Len(AfterLots) = Len(BeforeLots) - 1
    /\ \E i \in 1..Len(AfterLots) :
           /\ \A lot \in RecordPool : lot.qty # AfterLots[i].qty
           /\ \A k \in 1..Len(LotsOf(initial_inventory, call.asset)) :
                  LotsOf(initial_inventory, call.asset)[k].qty
                      # AfterLots[i].qty

\* ------------------------------------------------------------------------
\* Lots as objects: SpecObjects
\* ------------------------------------------------------------------------

\* A Lot of Python is an object: two references to one object see each
\* other's assignments.  Here every lot carries the identity of its object,
\* made of the place that built it: the opening inventory (made = 0), or the
\* Lot(...) of record_lot or of the split of assign_lot in the made-th
\* iteration of the loop.
ObjectId(made, by, at) == [made |-> made, by |-> by, at |-> at]

HasId(lot) == "id" \in DOMAIN lot

WithId(lot, id) ==
    [date |-> lot.date, asset |-> lot.asset, qty |-> lot.qty,
     cost |-> lot.cost, id |-> id]

\* The inventory bk as the objects the constructor is handed.
ObjectsOf(bk) ==
    [a \in DOMAIN bk |->
        [asset |-> bk[a].asset,
         lots |-> [i \in 1..Len(bk[a].lots) |->
                      WithId(bk[a].lots[i], ObjectId(0, a, i))]]]

\* The lots of the basket that Lot(...) has just built get their identity.
NewObjects(basket, made, by) ==
    [asset |-> basket.asset,
     lots |-> [i \in 1..Len(basket.lots) |->
                  IF HasId(basket.lots[i]) THEN basket.lots[i]
                  ELSE WithId(basket.lots[i], ObjectId(made, by, 0))]]

\* The identities of the lots of the inventory bk, and of the traces of the
\* ledger ev.
InventoryIds(bk) ==
    UNION {{bk[a].lots[i].id : i \in 1..Len(bk[a].lots)} : a \in DOMAIN bk}

TraceLots(ev) ==
    UNION {UNION {{ev[a][k].trace.lots[i] : i \in 1..Len(ev[a][k].trace.lots)}
                  : k \in 1..Len(ev[a])}
           : a \in DOMAIN ev}

TraceIds(ev) == {lot.id : lot \in TraceLots(ev)}

\* The lot of the inventory bk whose object is id.
InventoryLot(bk, id) ==
    CHOOSE lot \in UNION {{bk[a].lots[i] : i \in 1..Len(bk[a].lots)}
                          : a \in DOMAIN bk} : lot.id = id

\* The ledger ev as it reads once the inventory is bk: a lot of a trace that
\* is an object of the inventory too reads as the inventory's lot does.
SeenThrough(ev, bk) ==
    [a \in DOMAIN ev |->
        [k \in 1..Len(ev[a]) |->
            [ev[a][k] EXCEPT !.trace.lots =
                [i \in 1..Len(ev[a][k].trace.lots) |->
                    IF ev[a][k].trace.lots[i].id \in InventoryIds(bk)
                    THEN InventoryLot(bk, ev[a][k].trace.lots[i].id)
                    ELSE ev[a][k].trace.lots[i]]]]]

\* The ledger ev with the lots its traces have just been given new.
NewTraceObjects(ev, made) ==
    [a \in DOMAIN ev |->
        [k \in 1..Len(ev[a]) |->
            [ev[a][k] EXCEPT !.trace = NewObjects(@, made, "split")]]]

\* One iteration of the loop, the made-th, over objects.
ProcessOneObjects(bk, ev, crit, tx, made) ==
    Bind(ProcessOne(bk, ev, crit, tx), LAMBDA r :
        Bind([a \in DOMAIN r.baskets |->
                 NewObjects(r.baskets[a], made, "record_lot")],
             LAMBDA inventory :
                [baskets |-> inventory,
                 tax_events |->
                     SeenThrough(NewTraceObjects(r.tax_events, made),
                                 inventory),
                 error |-> r.error,
                 call |-> [r.call EXCEPT
                              !.returned = NewObjects(@, made, "split")]]))

\* The transactions the lists are drawn from: purchases, sales and swaps
\* that split and retire lots.
ObjectTxPool ==
    {tx \in TxPool : tx.txid \in {"b1", "s1", "s2", "s0", "x0", "bx", "sx",
                                   "sb"}}

\* TaxEngine(year, criterio, initial_inventory, transactions)
InitObjects ==
    /\ criterio \in Criteria
    /\ initial_inventory \in {ObjectsOf(bk) : bk \in InitInventories}
    /\ baskets = initial_inventory
    /\ tax_events = EmptyDict
    /\ transactions \in TxListsOf(ObjectTxPool, MaxTx)
    /\ n = 0
    /\ pc = "start"
    /\ prev = [baskets |-> baskets, tax_events |-> EmptyDict]
    /\ call = NoCall
    /\ calls = 0

\* One iteration of "for n, tx in enumerate(self.transactions)" over objects.
ProcessTxObjects ==
    /\ pc = "loop"
    /\ \E r \in {ProcessOneObjects(baskets, tax_events, criterio,
                                   transactions[n + 1], n + 1)} :
           /\ baskets' = r.baskets
           /\ tax_events' = r.tax_events
           /\ call' = r.call
           /\ pc' = IF r.error # "none" THEN r.error
                    ELSE AfterIndex(n + 1, Len(transactions))
    /\ prev' = [baskets |-> baskets, tax_events |-> tax_events]
    /\ n' = n + 1
    /\ UNCHANGED <<criterio, initial_inventory, transactions, calls>>

NextObjects == StartProcessing \/ ProcessTxObjects

SpecObjects == InitObjects /\ [][NextObjects]_vars

\* C21: the tax ledger is append-only and its audit trail is stable.  No
\* iteration of the loop, with its calls of assign_lot, record_lot and
\* record_tax_event, changes, removes or reorders an event recorded before
\* it, the lots of its trace included; and no lot object is at the same time
\* in a basket of the inventory and in a recorded trace.
C21_LedgerAppendOnly ==
    /\ Processed =>
          \A a \in DOMAIN prev.tax_events :
              /\ a \in DOMAIN tax_events
              /\ Len(tax_events[a]) >= Len(prev.tax_events[a])
              /\ SubSeq(tax_events[a], 1, Len(prev.tax_events[a]))
                    = prev.tax_events[a]
    /\ InventoryIds(baskets) \cap TraceIds(tax_events) = {}

\* C21's case: an event was recorded whose trace holds a fragment split off
\* a lot of the inventory, and a later iteration has split that lot again.
C21_Witness ==
    /\ RanToEnd
    /\ Assigned
    /\ \E lot \in TraceLots(prev.tax_events) :
           /\ lot.id.by = "split"
           /\ \E i \in 1..Len(BeforeLots) :
                  /\ i <= Len(AfterLots)
                  /\ SameAcquisition(BeforeLots[i], lot)
                  /\ AfterLots[i].id = BeforeLots[i].id
                  /\ AfterLots[i].qty # BeforeLots[i].qty

\* ------------------------------------------------------------------------
\* Claims about the ledger against the inventory (SpecFaulty, Spec)
\* ------------------------------------------------------------------------

\* The quantities of lots, as a list.
Quantities(lots) == [i \in 1..Len(lots) |-> lots[i].qty]

\* The last iteration dealt with a transaction of the year reported that
\* consumed lots.
ConsumedInYear ==
    /\ RanToEnd
    /\ CurrentYear(LastTx)
    /\ Assigned
    /\ ReturnedLots # <<>>

\* The assets whose list of events the last iteration changed.
AssetsWithNewEvents ==
    {a \in DOMAIN tax_events :
        tax_events[a] # EventsOf(prev.tax_events, a)}

\* C22: the ledger reconciles with consumption.  Every transaction of the
\* year reported that consumed lots has exactly one tax event, whose trace is
\* the basket its own call of assign_lot returned, and the quantity it took
\* from the inventory is the quantity of that event and of its trace; a
\* disposal whose proceeds are exactly zero is no exception.
C22_LedgerReconciles ==
    ConsumedInYear =>
        /\ Cardinality(AssetsWithNewEvents) = 1
        /\ \A a \in AssetsWithNewEvents :
              LET old == EventsOf(prev.tax_events, a)
                  new == tax_events[a]
                  event == new[Len(new)]
              IN  /\ Len(new) = Len(old) + 1
                  /\ SubSeq(new, 1, Len(old)) = old
                  /\ event.trace = call.returned
                  /\ event.trace.asset = call.asset
                  /\ IsExactly(event.qty, ExactSum(Quantities(ReturnedLots)))
                  /\ Canonical(ExactSum(Quantities(BeforeLots)))
                        = Canonical(ExactPlus(ExactSum(Quantities(AfterLots)),
                                              Exact(event.qty)))

\* ------------------------------------------------------------------------
\* Claims about the two consumption policies (Spec)
\* ------------------------------------------------------------------------

\* The other policy.
OtherCriterio == IF criterio = "FIFO" THEN "LIFO" ELSE "FIFO"

\* What process_transactions leaves under the other policy, of the whole
\* list and of its first k transactions.
OtherRun == process_transactions(initial_inventory, OtherCriterio, transactions)

OtherRunOf(k) ==
    process_transactions(initial_inventory, OtherCriterio,
                         SubSeq(transactions, 1, k))

\* What an event says whatever the policy: its date, quantity and proceeds.
PolicyFree(event) ==
    [date |-> event.date, qty |-> event.qty, income |-> event.income]

\* C23: the consumption policy affects cost attribution only.  From the same
\* inventory and the same list, process_transactions under FIFO and under
\* LIFO fails on the same transaction or on none; when both come to the end
\* they leave the same total quantity of every asset and, for every asset,
\* the same sequence of tax events as to dates, quantities and proceeds.
C23_PolicyAffectsCostOnly ==
    Finished =>
        /\ (pc = "done") <=> (OtherRun.error = "none")
        /\ pc # "done" =>
              /\ OtherRunOf(n - 1).error = "none"
              /\ OtherRunOf(n).error # "none"
        /\ pc = "done" =>
              /\ \A a \in DOMAIN baskets \cup DOMAIN OtherRun.baskets :
                    Canonical(ExactSum(Quantities(LotsOf(baskets, a))))
                      = Canonical(ExactSum(Quantities(
                                      LotsOf(OtherRun.baskets, a))))
              /\ DOMAIN tax_events = DOMAIN OtherRun.tax_events
              /\ \A a \in DOMAIN tax_events :
                    /\ Len(tax_events[a]) = Len(OtherRun.tax_events[a])
                    /\ \A k \in 1..Len(tax_events[a]) :
                          PolicyFree(tax_events[a][k])
                            = PolicyFree(OtherRun.tax_events[a][k])

\* ------------------------------------------------------------------------
\* assign_lot of any quantity on baskets with empty lots: SpecTermination
\* ------------------------------------------------------------------------

\* Lots of quantity 0, which record_lot takes as any other.
EmptyLotPool ==
    { Lot(20200105, "XMR", Zero, Dec(60, 0)),
      Lot(20200305, "BTC", Zero, Dec(9000, 0)) }

\* The (asset, quantity) pairs assign_lot is called with: those of
\* AssignPool, nothing, less than nothing, and an asset never held.
AnyAssignPool ==
    AssignPool \cup { <<"XMR", Zero>>, <<"XMR", Dec(-1, 0)>>,
                      <<"ETH", Dec(1, 0)>> }

RecordEmptyLotStep == \E lot \in EmptyLotPool : CallRecordLot(lot)

AssignAnyStep == \E a \in AnyAssignPool : CallAssignLot(a[1], a[2])

NextTermination == RecordLotStep \/ RecordEmptyLotStep \/ AssignAnyStep

SpecTermination == InitLots /\ [][NextTermination]_vars

\* The lots the call removed from the basket.
LotsRemoved == Len(BeforeLots) - Len(AfterLots)

\* C24: assign_lot terminates.  Whatever the quantity asked for, on a basket
\* of lots of quantity 0 or more, the loop ends after at most (number of
\* lots + 1) iterations, returning a basket with nothing remaining or
\* raising an error: every iteration sets what remains to 0 or removes one
\* lot from the basket.
C24_AssignLotTerminates ==
    call.op = "assign_lot" =>
        /\ call.iters <= Len(BeforeLots) + 1
        /\ call.outcome # "none"
        /\ LotsRemoved \in {call.iters, call.iters - 1}
        /\ call.outcome = "ok" =>
              assign_lot(call.before, criterio, call.asset,
                         call.qty).remaining = Zero

\* C24's case: the loop ran once more than the basket had lots, one of them
\* of quantity 0, removed them all and raised on the basket left empty.
C24_Witness ==
    /\ call.op = "assign_lot"
    /\ call.outcome = "IndexError"
    /\ Len(BeforeLots) >= 3
    /\ \E i \in 1..Len(BeforeLots) : BeforeLots[i].qty = Zero
    /\ call.iters = Len(BeforeLots) + 1
    /\ AfterLots = <<>>

====
